---------------------------- MODULE Spec2Model ----------------------------
(***************************************************************************)
(* Selection tracking of Microsoft::Terminal::Core::Terminal               *)
(* (src/cascadia/TerminalCore/TerminalSelection.cpp).                      *)
(*                                                                         *)
(* The state is the selection fields of Terminal, the two live viewport    *)
(* quantities the mutators read (_scrollOffset and _ViewStartIndex()) and  *)
(* the content of the text buffer.  Every method is one action; the const  *)
(* query methods are operators over the state, and the action of a query   *)
(* records what the call returned in `ret`.                                *)
(*                                                                         *)
(* Spec is the whole state machine from the constructed Terminal.          *)
(* SpecRects applies the const methods to every selection that a           *)
(* ClearSelection or SetSelectionAnchor followed by a                      *)
(* SetEndSelectionPosition leaves, over every buffer content.              *)
(*                                                                         *)
(* COORD and SMALL_RECT fields are SHORT.  The width of SHORT is scaled    *)
(* down (SHORT_MAX below) so that the whole coordinate range, both of its  *)
(* ends included, is explored; all arithmetic keeps the checked / wrapping *)
(* behaviour of the source at that width.                                  *)
(***************************************************************************)
EXTENDS Integers, Sequences, FiniteSets, TLC

VARIABLES
    selectionActive,                \* bool  _selectionActive
    selectionAnchor,                \* COORD _selectionAnchor
    selectionAnchor_YOffset,        \* SHORT _selectionAnchor_YOffset
    endSelectionPosition,           \* COORD _endSelectionPosition
    endSelectionPosition_YOffset,   \* SHORT _endSelectionPosition_YOffset
    boxSelection,                   \* bool  _boxSelection
    scrollOffset,                   \* int   _scrollOffset
    viewStartIndex,                 \* int   _ViewStartIndex()
    buffer,                         \* *_buffer: the DBCS attribute of each column
    ret                             \* the last call: method, arguments, outcome

tracker == << selectionActive, selectionAnchor, selectionAnchor_YOffset,
              endSelectionPosition, endSelectionPosition_YOffset, boxSelection >>

vars == << selectionActive, selectionAnchor, selectionAnchor_YOffset,
           endSelectionPosition, endSelectionPosition_YOffset, boxSelection,
           scrollOffset, viewStartIndex, buffer, ret >>

---------------------------------------------------------------------------
(* Bounds of the model *)

\* largest value of the (scaled) SHORT coordinate type
SHORT_MAX == 7

\* number of rows of the viewport
ViewHeight == 2

\* index of the rightmost column of the buffer and of the viewport
RightInclusive == 2

---------------------------------------------------------------------------
(* The SHORT type and the checked arithmetic of intsafe.h / gsl *)

SHORT_MIN == -SHORT_MAX - 1

SHORT == SHORT_MIN..SHORT_MAX

\* value ShortAdd / ShortSub leave in *psResult when they fail
SHORT_ERROR == -1

S_OK == "S_OK"

INTSAFE_E_ARITHMETIC_OVERFLOW == "ArithmeticOverflow"

NARROWING_ERROR == "narrowing_error"

\* mutant: the difference wraps around silently
ShortSub_Wrapping(a, b) ==
    [hr |-> "S_OK",
     result |-> ((a - b + SHORT_MAX + 1) % (2 * SHORT_MAX + 2)) - SHORT_MAX - 1]

\* HRESULT ShortSub(SHORT, SHORT, SHORT*): exact difference or failure
ShortSub(a, b) ==
    IF a - b \in SHORT
        THEN [hr |-> S_OK, result |-> a - b]
        ELSE [hr |-> INTSAFE_E_ARITHMETIC_OVERFLOW, result |-> SHORT_ERROR]

\* mutant: the sum wraps around silently
ShortAdd_Wrapping(a, b) ==
    [hr |-> "S_OK",
     result |-> ((a + b + SHORT_MAX + 1) % (2 * SHORT_MAX + 2)) - SHORT_MAX - 1]

\* HRESULT ShortAdd(SHORT, SHORT, SHORT*): exact sum or failure
ShortAdd(a, b) ==
    IF a + b \in SHORT
        THEN [hr |-> S_OK, result |-> a + b]
        ELSE [hr |-> INTSAFE_E_ARITHMETIC_OVERFLOW, result |-> SHORT_ERROR]

\* gsl::narrow<SHORT>(int): throws narrowing_error when the value changes
NarrowFits(v) == v \in SHORT

\* SHORT row; row++ : the incremented int converted back to SHORT
ShortIncrement(row) ==
    ((row + 1 - SHORT_MIN) % (SHORT_MAX - SHORT_MIN + 1)) + SHORT_MIN

Min(a, b) == IF a <= b THEN a ELSE b

Max(a, b) == IF a >= b THEN a ELSE b

---------------------------------------------------------------------------
(* Collaborators: text buffer and viewport *)

Columns == 0..RightInclusive

DbcsAttrs == {"Single", "Leading", "Trailing"}

\* Content of a buffer row as far as the selection reads it: the DBCS
\* attribute of each cell.  A leading half is followed by its trailing half
\* wherever both lie inside the row; a glyph may straddle the row's edge.
Buffers ==
    { b \in [Columns -> DbcsAttrs] :
        \A x \in Columns :
            x < RightInclusive =>
                ((b[x] = "Leading") <=> (b[x + 1] = "Trailing")) }

\* a buffer that holds no wide glyph
NarrowBuffer == [x \in Columns |-> "Single"]

\* _buffer->GetCellDataAt(position)->DbcsAttr()
GetCellDataAt(buf, position) == buf[position.X]

\* _mutableViewport.IncrementInBounds(position): one column forward,
\* failing (position kept) at the last column
IncrementInBounds(position) ==
    IF position.X < RightInclusive
        THEN [ok |-> TRUE, pos |-> [position EXCEPT !.X = @ + 1]]
        ELSE [ok |-> FALSE, pos |-> position]

\* _mutableViewport.DecrementInBounds(position): one column backward,
\* failing (position kept) at the first column
DecrementInBounds(position) ==
    IF position.X > 0
        THEN [ok |-> TRUE, pos |-> [position EXCEPT !.X = @ - 1]]
        ELSE [ok |-> FALSE, pos |-> position]

\* _buffer->GetTextForClipboard(lineSelection, trim, rects, ...).text:
\* one fragment per rectangle; a fragment is kept abstract as the one token
\* that identifies what the buffer was asked for
GetTextForClipboard(lineSelection, trimTrailingWhitespace, selectionRects) ==
    [i \in 1..Len(selectionRects) |->
        << [rect |-> selectionRects[i],
            lineSelection |-> lineSelection,
            trim |-> trimTrailingWhitespace] >>]

---------------------------------------------------------------------------
(* Terminal::_ExpandWideGlyphSelection_Left / _Right *)

\* mutant: the boundary stays on the trailing half when it cannot move back
ExpandWideGlyphSelection_Left_NoFallback(buf, x_pos, y_pos) ==
    LET position == [X |-> x_pos, Y |-> y_pos]
        dec == DecrementInBounds(position)
    IN  IF GetCellDataAt(buf, position) = "Trailing" THEN dec.pos.X
        ELSE position.X

ExpandWideGlyphSelection_Left(buf, x_pos, y_pos) ==
    LET position == [X |-> x_pos, Y |-> y_pos]
        attr == GetCellDataAt(buf, position)
        dec == DecrementInBounds(position)
    IN  IF attr = "Trailing"
            THEN IF dec.ok THEN dec.pos.X
                           ELSE IncrementInBounds(dec.pos).pos.X
            ELSE position.X

ExpandWideGlyphSelection_Right(buf, x_pos, y_pos) ==
    LET position == [X |-> x_pos, Y |-> y_pos]
        attr == GetCellDataAt(buf, position)
        inc == IncrementInBounds(position)
    IN  IF attr = "Leading"
            THEN IF inc.ok THEN inc.pos.X
                           ELSE DecrementInBounds(inc.pos).pos.X
            ELSE position.X

---------------------------------------------------------------------------
(* Terminal::_GetSelectionRects *)

\* mutant: box mode takes the upper endpoint's column as the left bound
NaturalLeft_BoxFromHigherX(box, higherCoord, lowerCoord, row) ==
    IF box \/ higherCoord.Y = lowerCoord.Y
        THEN higherCoord.X
        ELSE IF row = higherCoord.Y THEN higherCoord.X ELSE 0

\* mutant: the first row of a stream selection starts at the lower
\* endpoint's column
NaturalLeft_FirstRowFromLowerX(box, higherCoord, lowerCoord, row) ==
    IF box \/ higherCoord.Y = lowerCoord.Y
        THEN IF higherCoord.X <= lowerCoord.X THEN higherCoord.X
             ELSE lowerCoord.X
        ELSE IF row = higherCoord.Y THEN lowerCoord.X ELSE 0

\* mutant: a single-row selection in stream mode is not treated as a box
NaturalRight_NoSingleRowCase(box, higherCoord, lowerCoord, row) ==
    IF box
        THEN IF higherCoord.X >= lowerCoord.X THEN higherCoord.X
             ELSE lowerCoord.X
        ELSE IF row = lowerCoord.Y THEN lowerCoord.X ELSE RightInclusive

\* selectionRow.Left / .Right before the wide-glyph expansion (lines 43-52)
NaturalLeft(box, higherCoord, lowerCoord, row) ==
    IF box \/ higherCoord.Y = lowerCoord.Y
        THEN Min(higherCoord.X, lowerCoord.X)
        ELSE IF row = higherCoord.Y THEN higherCoord.X ELSE 0

NaturalRight(box, higherCoord, lowerCoord, row) ==
    IF box \/ higherCoord.Y = lowerCoord.Y
        THEN Max(higherCoord.X, lowerCoord.X)
        ELSE IF row = lowerCoord.Y THEN lowerCoord.X ELSE RightInclusive

\* one pass of the loop body (lines 38-57)
SelectionRow(buf, box, higherCoord, lowerCoord, row) ==
    [Top    |-> row,
     Bottom |-> row,
     Left   |-> ExpandWideGlyphSelection_Left(
                    buf, NaturalLeft(box, higherCoord, lowerCoord, row), row),
     Right  |-> ExpandWideGlyphSelection_Right(
                    buf, NaturalRight(box, higherCoord, lowerCoord, row), row)]

\* mutant: the loop stops before the last row (row < lowerCoord.Y)
RECURSIVE SelectionLoop_ExclusiveBound(_, _, _, _, _, _, _)
SelectionLoop_ExclusiveBound(buf, box, higherCoord, lowerCoord, row, selectionArea, passes) ==
    IF ~(row < lowerCoord.Y)
        THEN [status |-> "S_OK", value |-> selectionArea]
    ELSE SelectionLoop_ExclusiveBound(
             buf, box, higherCoord, lowerCoord, ShortIncrement(row),
             Append(selectionArea,
                    SelectionRow(buf, box, higherCoord, lowerCoord, row)),
             passes + 1)

\* for (auto row = higherCoord.Y; row <= lowerCoord.Y; row++): `row` is a
\* SHORT, so the increment wraps.  `passes` counts the passes made; once
\* there were more passes than SHORT has values the counter has been at the
\* same value twice with the loop condition unchanged, and the loop never
\* leaves.
RECURSIVE SelectionLoop(_, _, _, _, _, _, _)
SelectionLoop(buf, box, higherCoord, lowerCoord, row, selectionArea, passes) ==
    IF ~(row <= lowerCoord.Y)
        THEN [status |-> S_OK, value |-> selectionArea]
    ELSE IF passes > SHORT_MAX - SHORT_MIN + 1
        THEN [status |-> "NoReturn", value |-> << >>]
    ELSE SelectionLoop(buf, box, higherCoord, lowerCoord,
                       ShortIncrement(row),
                       Append(selectionArea,
                              SelectionRow(buf, box, higherCoord, lowerCoord, row)),
                       passes + 1)

\* mutant: the rows of an inactive selection are computed all the same
SelectionRects_NoActiveCheck(active, anchor, anchorYOffset, end, endYOffset, box, buf) ==
    LET a == [X |-> anchor.X, Y |-> anchor.Y + anchorYOffset]
        e == [X |-> end.X, Y |-> end.Y + endYOffset]
        higherCoord == IF a.Y <= e.Y THEN a ELSE e
        lowerCoord == IF a.Y > e.Y THEN a ELSE e
    IN  IF a.Y \notin SHORT_MIN..SHORT_MAX \/ e.Y \notin SHORT_MIN..SHORT_MAX
            THEN [status |-> "ArithmeticOverflow", value |-> << >>]
            ELSE SelectionLoop(buf, box, higherCoord, lowerCoord,
                               higherCoord.Y, << >>, 0)

\* the method on explicit fields; the outcome is [status, value]
SelectionRects(active, anchor, anchorYOffset, end, endYOffset, box, buf) ==
    LET temp1 == ShortAdd(anchor.Y, anchorYOffset)
        temp2 == ShortAdd(end.Y, endYOffset)
        selectionAnchorWithOffset == [X |-> anchor.X, Y |-> temp1.result]
        endSelectionPositionWithOffset == [X |-> end.X, Y |-> temp2.result]
        higherCoord ==
            IF selectionAnchorWithOffset.Y <= endSelectionPositionWithOffset.Y
                THEN selectionAnchorWithOffset
                ELSE endSelectionPositionWithOffset
        lowerCoord ==
            IF selectionAnchorWithOffset.Y > endSelectionPositionWithOffset.Y
                THEN selectionAnchorWithOffset
                ELSE endSelectionPositionWithOffset
    IN  IF ~active
            THEN [status |-> S_OK, value |-> << >>]
        ELSE IF temp1.hr # S_OK \/ temp2.hr # S_OK
            THEN [status |-> INTSAFE_E_ARITHMETIC_OVERFLOW, value |-> << >>]
        ELSE SelectionLoop(buf, box, higherCoord, lowerCoord,
                           higherCoord.Y, << >>, 0)

\* mutant: the rows are resolved through the live view start instead of the
\* offsets frozen with the endpoints
GetSelectionRects_LiveViewStart ==
    SelectionRects(selectionActive,
                   selectionAnchor, viewStartIndex,
                   endSelectionPosition, viewStartIndex,
                   boxSelection, buffer)

GetSelectionRects ==
    SelectionRects(selectionActive,
                   selectionAnchor, selectionAnchor_YOffset,
                   endSelectionPosition, endSelectionPosition_YOffset,
                   boxSelection, buffer)

---------------------------------------------------------------------------
(* Terminal::RetrieveSelectedTextFromBuffer and Terminal::IsSelectionActive *)

RECURSIVE Concat(_)
Concat(fragments) ==
    IF fragments = << >> THEN << >>
    ELSE Head(fragments) \o Concat(Tail(fragments))

\* mutant: a selection of one row is always copied as a line selection
RetrieveSelectedTextFromBuffer_SingleRowAsLine(trimTrailingWhitespace) ==
    LET rects == GetSelectionRects
    IN  IF rects.status # "S_OK"
            THEN rects
            ELSE [status |-> "S_OK",
                  value |-> Concat(GetTextForClipboard(
                                       ~boxSelection \/ Len(rects.value) = 1,
                                       trimTrailingWhitespace,
                                       rects.value))]

RetrieveSelectedTextFromBuffer(trimTrailingWhitespace) ==
    LET rects == GetSelectionRects
    IN  IF rects.status # S_OK
            THEN rects
            ELSE [status |-> S_OK,
                  value |-> Concat(GetTextForClipboard(~boxSelection,
                                                       trimTrailingWhitespace,
                                                       rects.value))]

IsSelectionActive == selectionActive

---------------------------------------------------------------------------
(* Inputs of the calls *)

\* rows a caller passes as position.Y: a viewport row and both ends of the
\* coordinate range
PositionRows == {SHORT_MIN, 0, SHORT_MAX}

\* positions passed under Spec: the corners of that range of rows
Positions ==
    { [X |-> 0, Y |-> SHORT_MIN], [X |-> 0, Y |-> 0],
      [X |-> RightInclusive, Y |-> 0], [X |-> RightInclusive, Y |-> SHORT_MAX] }

\* positions recorded in the initial states of SpecRects: every column
AllPositions == [X : Columns, Y : PositionRows]

\* values of the int _scrollOffset; the last one does not fit a SHORT
ScrollOffsets == {0, 1, SHORT_MAX + 1}

\* values of the int _ViewStartIndex(); the last one does not fit a SHORT
ViewStartIndexes == {0, 1, SHORT_MAX + 1}

Origin == [X |-> 0, Y |-> 0]

\* what `ret` holds after a call: the method, its arguments (position, flag,
\* where it has them), how it ended and what it returned
Called(op, status, position, flag, value) ==
    [op |-> op, status |-> status, position |-> position, flag |-> flag,
     value |-> value]

---------------------------------------------------------------------------
(* Terminal::SetSelectionAnchor / Terminal::SetEndSelectionPosition *)

\* mutant: the scroll offset is added instead of subtracted
RecordPosition_AddsScrollOffset(position, currentScrollOffset, currentViewStart, oldYOffset) ==
    [coord |-> [position EXCEPT !.Y = position.Y + currentScrollOffset],
     YOffset |-> currentViewStart,
     status |-> "S_OK"]

\* The statements both methods run on their endpoint (lines 125-132 and
\* 144-151): the coordinate and the Y offset they leave, and whether one of
\* them threw.  A field keeps what was written to it before the throw.
RecordPosition(position, currentScrollOffset, currentViewStart, oldYOffset) ==
    LET sub == ShortSub(position.Y, currentScrollOffset)
    IN  IF ~NarrowFits(currentScrollOffset)
            THEN [coord |-> position,
                  YOffset |-> oldYOffset,
                  status |-> NARROWING_ERROR]
        ELSE IF sub.hr # S_OK
            THEN [coord |-> [position EXCEPT !.Y = sub.result],
                  YOffset |-> oldYOffset,
                  status |-> sub.hr]
        ELSE IF ~NarrowFits(currentViewStart)
            THEN [coord |-> [position EXCEPT !.Y = sub.result],
                  YOffset |-> oldYOffset,
                  status |-> NARROWING_ERROR]
        ELSE [coord |-> [position EXCEPT !.Y = sub.result],
              YOffset |-> currentViewStart,
              status |-> S_OK]

\* mutant: without an active selection the call is refused
SetEndSelectionPosition_RefusedWhileInactive(position) ==
    LET e == RecordPosition(position, scrollOffset, viewStartIndex,
                            endSelectionPosition_YOffset)
    IN  /\ endSelectionPosition' =
               (IF selectionActive THEN e.coord ELSE endSelectionPosition)
        /\ endSelectionPosition_YOffset' =
               (IF selectionActive THEN e.YOffset
                                   ELSE endSelectionPosition_YOffset)
        /\ ret' = Called("SetEndSelectionPosition",
                         IF selectionActive THEN e.status ELSE "NotActive",
                         position, FALSE, << >>)
        /\ UNCHANGED << selectionActive, selectionAnchor,
                        selectionAnchor_YOffset, boxSelection,
                        scrollOffset, viewStartIndex, buffer >>

\* mutant: recording the end also turns the selection on
SetEndSelectionPosition_ActivatesSelection(position) ==
    LET e == RecordPosition(position, scrollOffset, viewStartIndex,
                            endSelectionPosition_YOffset)
    IN  /\ endSelectionPosition' = e.coord
        /\ endSelectionPosition_YOffset' = e.YOffset
        /\ selectionActive' = TRUE
        /\ ret' = Called("SetEndSelectionPosition", e.status, position,
                         FALSE, << >>)
        /\ UNCHANGED << selectionAnchor, selectionAnchor_YOffset,
                        boxSelection, scrollOffset, viewStartIndex, buffer >>

SetEndSelectionPosition(position) ==
    LET e == RecordPosition(position, scrollOffset, viewStartIndex,
                            endSelectionPosition_YOffset)
    IN  /\ endSelectionPosition' = e.coord
        /\ endSelectionPosition_YOffset' = e.YOffset
        /\ ret' = Called("SetEndSelectionPosition", e.status, position,
                         FALSE, << >>)
        /\ UNCHANGED << selectionActive, selectionAnchor,
                        selectionAnchor_YOffset, boxSelection,
                        scrollOffset, viewStartIndex, buffer >>

\* mutant: the anchor is recorded without the end being moved onto it
SetSelectionAnchor_KeepsEnd(position) ==
    LET a == RecordPosition(position, scrollOffset, viewStartIndex,
                            selectionAnchor_YOffset)
    IN  /\ selectionAnchor' = a.coord
        /\ selectionAnchor_YOffset' = a.YOffset
        /\ selectionActive' = (IF a.status = "S_OK" THEN TRUE ELSE selectionActive)
        /\ ret' = Called("SetSelectionAnchor", a.status, position, FALSE, << >>)
        /\ UNCHANGED << endSelectionPosition, endSelectionPosition_YOffset,
                        boxSelection, scrollOffset, viewStartIndex, buffer >>

SetSelectionAnchor(position) ==
    LET a == RecordPosition(position, scrollOffset, viewStartIndex,
                            selectionAnchor_YOffset)
        e == RecordPosition(position, scrollOffset, viewStartIndex,
                            endSelectionPosition_YOffset)
    IN  /\ selectionAnchor' = a.coord
        /\ selectionAnchor_YOffset' = a.YOffset
        /\ IF a.status # S_OK
              THEN /\ ret' = Called("SetSelectionAnchor", a.status, position,
                                    FALSE, << >>)
                   /\ UNCHANGED << selectionActive, endSelectionPosition,
                                   endSelectionPosition_YOffset >>
              ELSE /\ selectionActive' = TRUE
                   /\ endSelectionPosition' = e.coord
                   /\ endSelectionPosition_YOffset' = e.YOffset
                   /\ ret' = Called("SetSelectionAnchor", e.status, position,
                                    FALSE, << >>)
        /\ UNCHANGED << boxSelection, scrollOffset, viewStartIndex, buffer >>

---------------------------------------------------------------------------
(* Terminal::SetBoxSelection / Terminal::ClearSelection *)

\* mutant: the mode of a selection in progress is kept until the next one
SetBoxSelection_IgnoredWhileActive(isEnabled) ==
    /\ boxSelection' = (IF selectionActive THEN boxSelection ELSE isEnabled)
    /\ ret' = Called("SetBoxSelection", "S_OK", Origin, isEnabled, << >>)
    /\ UNCHANGED << selectionActive, selectionAnchor, selectionAnchor_YOffset,
                    endSelectionPosition, endSelectionPosition_YOffset,
                    scrollOffset, viewStartIndex, buffer >>

SetBoxSelection(isEnabled) ==
    /\ boxSelection' = isEnabled
    /\ ret' = Called("SetBoxSelection", S_OK, Origin, isEnabled, << >>)
    /\ UNCHANGED << selectionActive, selectionAnchor, selectionAnchor_YOffset,
                    endSelectionPosition, endSelectionPosition_YOffset,
                    scrollOffset, viewStartIndex, buffer >>

\* mutant: clearing also falls back to stream selection
ClearSelection_ResetsBoxSelection ==
    /\ selectionActive' = FALSE
    /\ selectionAnchor' = Origin
    /\ endSelectionPosition' = Origin
    /\ selectionAnchor_YOffset' = 0
    /\ endSelectionPosition_YOffset' = 0
    /\ boxSelection' = FALSE
    /\ ret' = Called("ClearSelection", "S_OK", Origin, FALSE, << >>)
    /\ UNCHANGED << scrollOffset, viewStartIndex, buffer >>

ClearSelection ==
    /\ selectionActive' = FALSE
    /\ selectionAnchor' = Origin
    /\ endSelectionPosition' = Origin
    /\ selectionAnchor_YOffset' = 0
    /\ endSelectionPosition_YOffset' = 0
    /\ ret' = Called("ClearSelection", S_OK, Origin, FALSE, << >>)
    /\ UNCHANGED << boxSelection, scrollOffset, viewStartIndex, buffer >>

---------------------------------------------------------------------------
(* Calls of the const methods: the state is left alone, `ret` holds the   *)
(* outcome.                                                                *)

\* mutant: computing the rows consumes the selection
CallGetSelectionRects_Deactivates ==
    LET r == GetSelectionRects
    IN  /\ ret' = Called("GetSelectionRects", r.status, Origin, FALSE, r.value)
        /\ selectionActive' = FALSE
        /\ UNCHANGED << selectionAnchor, selectionAnchor_YOffset,
                        endSelectionPosition, endSelectionPosition_YOffset,
                        boxSelection, scrollOffset, viewStartIndex, buffer >>

CallGetSelectionRects ==
    LET r == GetSelectionRects
    IN  /\ ret' = Called("GetSelectionRects", r.status, Origin, FALSE, r.value)
        /\ UNCHANGED << tracker, scrollOffset, viewStartIndex, buffer >>

CallRetrieveSelectedTextFromBuffer(trimTrailingWhitespace) ==
    LET r == RetrieveSelectedTextFromBuffer(trimTrailingWhitespace)
    IN  /\ ret' = Called("RetrieveSelectedTextFromBuffer", r.status, Origin,
                         trimTrailingWhitespace, r.value)
        /\ UNCHANGED << tracker, scrollOffset, viewStartIndex, buffer >>

CallIsSelectionActive ==
    /\ ret' = Called("IsSelectionActive", S_OK, Origin, FALSE,
                     << IsSelectionActive >>)
    /\ UNCHANGED << tracker, scrollOffset, viewStartIndex, buffer >>

---------------------------------------------------------------------------
(* The viewport moves: the user scrolls, new output moves the view start   *)

UserScrollViewport(newOffset) ==
    /\ scrollOffset' = newOffset
    /\ ret' = Called("UserScrollViewport", S_OK, Origin, FALSE, << >>)
    /\ UNCHANGED << tracker, viewStartIndex, buffer >>

NewOutput(newViewStart) ==
    /\ viewStartIndex' = newViewStart
    /\ ret' = Called("NewOutput", S_OK, Origin, FALSE, << >>)
    /\ UNCHANGED << tracker, scrollOffset, buffer >>

---------------------------------------------------------------------------
(* The state machine *)

Constructed == Called("Terminal", S_OK, Origin, FALSE, << >>)

Init ==
    /\ selectionActive = FALSE
    /\ selectionAnchor = Origin
    /\ selectionAnchor_YOffset = 0
    /\ endSelectionPosition = Origin
    /\ endSelectionPosition_YOffset = 0
    /\ boxSelection = FALSE
    /\ scrollOffset = 0
    /\ viewStartIndex = 0
    /\ buffer = NarrowBuffer
    /\ ret = Constructed

Next ==
    \/ \E position \in Positions : SetSelectionAnchor(position)
    \/ \E position \in Positions : SetEndSelectionPosition(position)
    \/ \E isEnabled \in BOOLEAN : SetBoxSelection(isEnabled)
    \/ ClearSelection
    \/ CallGetSelectionRects
    \/ \E trim \in BOOLEAN : CallRetrieveSelectedTextFromBuffer(trim)
    \/ CallIsSelectionActive
    \/ \E newOffset \in ScrollOffsets : UserScrollViewport(newOffset)
    \/ \E newViewStart \in ViewStartIndexes : NewOutput(newViewStart)

Spec == Init /\ [][Next]_vars

---------------------------------------------------------------------------
(* The const methods over every selection and buffer content *)

\* The states left by ClearSelection (cleared) or a successful
\* SetSelectionAnchor(anchorAt), followed by a successful
\* SetEndSelectionPosition(endAt), each call under its own scroll offset
\* and view start, in either selection mode, over any buffer content.
InitRects ==
    \E anchorAt \in AllPositions, endAt \in AllPositions,
       anchorScroll \in ScrollOffsets, endScroll \in ScrollOffsets,
       anchorView \in ViewStartIndexes, endView \in ViewStartIndexes,
       cleared \in BOOLEAN, box \in BOOLEAN, buf \in Buffers :
        LET a == RecordPosition(anchorAt, anchorScroll, anchorView, 0)
            e == RecordPosition(endAt, endScroll, endView, 0)
        IN  /\ a.status = S_OK
            /\ e.status = S_OK
            /\ selectionActive = ~cleared
            /\ selectionAnchor = (IF cleared THEN Origin ELSE a.coord)
            /\ selectionAnchor_YOffset = (IF cleared THEN 0 ELSE a.YOffset)
            /\ endSelectionPosition = e.coord
            /\ endSelectionPosition_YOffset = e.YOffset
            /\ boxSelection = box
            /\ scrollOffset = endScroll
            /\ viewStartIndex = endView
            /\ buffer = buf
            /\ ret = Called("SetEndSelectionPosition", S_OK, endAt, FALSE, << >>)

NextRects == CallGetSelectionRects

SpecRects == InitRects /\ [][NextRects]_vars

---------------------------------------------------------------------------
(* The selection made on screen: every position passed lies inside the     *)
(* viewport, while the user scrolls and new output moves the view start    *)

\* the first and the last column of every row of the viewport
ViewportPositions == [X : {0, RightInclusive}, Y : 0..(ViewHeight - 1)]

NextViewport ==
    \/ \E position \in ViewportPositions : SetSelectionAnchor(position)
    \/ \E position \in ViewportPositions : SetEndSelectionPosition(position)
    \/ CallGetSelectionRects
    \/ \E newOffset \in ScrollOffsets : UserScrollViewport(newOffset)
    \/ \E newViewStart \in ViewStartIndexes : NewOutput(newViewStart)

SpecViewport == Init /\ [][NextViewport]_vars

---------------------------------------------------------------------------
(* Vocabulary of the properties *)

\* absolute row of each endpoint: coordinate row + its frozen Y offset
AnchorAbsRow == selectionAnchor.Y + selectionAnchor_YOffset

EndAbsRow == endSelectionPosition.Y + endSelectionPosition_YOffset

\* the endpoint with the smaller / larger absolute row
TopEndpoint ==
    IF AnchorAbsRow <= EndAbsRow THEN selectionAnchor ELSE endSelectionPosition

BottomEndpoint ==
    IF AnchorAbsRow <= EndAbsRow THEN endSelectionPosition ELSE selectionAnchor

TopAbsRow == Min(AnchorAbsRow, EndAbsRow)

BottomAbsRow == Max(AnchorAbsRow, EndAbsRow)

MinX == Min(selectionAnchor.X, endSelectionPosition.X)

MaxX == Max(selectionAnchor.X, endSelectionPosition.X)

\* the last call was _GetSelectionRects on an active selection and returned
RectsReturned ==
    /\ ret.op = "GetSelectionRects"
    /\ ret.status = S_OK
    /\ selectionActive

\* none of the given columns holds half of a wide glyph
NoWideGlyphAt(columns) == \A x \in columns : buffer[x] = "Single"

QueryOps == {"GetSelectionRects", "RetrieveSelectedTextFromBuffer"}

RecordOps == {"SetSelectionAnchor", "SetEndSelectionPosition"}

---------------------------------------------------------------------------
(* C2: for an active selection the rows returned are exactly the absolute  *)
(* rows from the smaller to the larger endpoint row, one rectangle each,   *)
(* ascending, without gap or duplicate.                                    *)

C2_RowsContiguous ==
    RectsReturned =>
        /\ Len(ret.value) = BottomAbsRow - TopAbsRow + 1
        /\ \A i \in 1..Len(ret.value) :
              /\ ret.value[i].Top = TopAbsRow + i - 1
              /\ ret.value[i].Bottom = ret.value[i].Top

C2_Witness ==
    /\ RectsReturned
    /\ AnchorAbsRow > EndAbsRow + 1
    /\ Len(ret.value) = AnchorAbsRow - EndAbsRow + 1

---------------------------------------------------------------------------
(* C3: every returned row has Left <= Right.  Stated as in the claim; the  *)
(* fallback of the wide-glyph expansion at the edge columns breaks it.     *)

C3_LeftLeRight ==
    RectsReturned =>
        \A i \in 1..Len(ret.value) : ret.value[i].Left <= ret.value[i].Right

---------------------------------------------------------------------------
(* C4: stream mode over more than one absolute row, no wide glyph at the   *)
(* boundaries: the first row runs from top.X to the rightmost column, the  *)
(* last row from column 0 to bottom.X, every interior row over the whole   *)
(* width; top / bottom are the endpoints with the smaller / larger         *)
(* absolute row, whichever of them is the anchor.                          *)

C4_StreamRows ==
    ( /\ RectsReturned
      /\ ~boxSelection
      /\ AnchorAbsRow # EndAbsRow
      /\ NoWideGlyphAt({TopEndpoint.X, BottomEndpoint.X, 0, RightInclusive}) )
    =>
        \A i \in 1..Len(ret.value) :
            /\ ret.value[i].Left =
                   (IF ret.value[i].Top = TopAbsRow THEN TopEndpoint.X ELSE 0)
            /\ ret.value[i].Right =
                   (IF ret.value[i].Top = BottomAbsRow
                       THEN BottomEndpoint.X ELSE RightInclusive)

C4_Witness ==
    /\ RectsReturned
    /\ ~boxSelection
    /\ AnchorAbsRow > EndAbsRow + 1
    /\ NoWideGlyphAt(Columns)
    /\ endSelectionPosition.X > 0
    /\ selectionAnchor.X < endSelectionPosition.X
    /\ ret.value[1].Left = endSelectionPosition.X
    /\ ret.value[Len(ret.value)].Right = selectionAnchor.X
    /\ ret.value[2].Left = 0
    /\ ret.value[2].Right = RightInclusive

---------------------------------------------------------------------------
(* C5: box mode, no wide glyph at the boundaries: every returned row has   *)
(* Left = min(anchor.X, end.X) and Right = max(anchor.X, end.X).           *)

C5_BoxRows ==
    ( /\ RectsReturned
      /\ boxSelection
      /\ NoWideGlyphAt({MinX, MaxX}) )
    =>
        \A i \in 1..Len(ret.value) :
            /\ ret.value[i].Left = MinX
            /\ ret.value[i].Right = MaxX

C5_Witness ==
    /\ RectsReturned
    /\ boxSelection
    /\ Len(ret.value) >= 3
    /\ AnchorAbsRow < EndAbsRow
    /\ selectionAnchor.X > endSelectionPosition.X
    /\ NoWideGlyphAt({MinX, MaxX})
    /\ ret.value[1].Left = endSelectionPosition.X
    /\ ret.value[1].Right = selectionAnchor.X

---------------------------------------------------------------------------
(* C6: anchor and end on the same absolute row: one row is returned, the   *)
(* same in box mode and in stream mode, and without a wide glyph at the    *)
(* boundaries it runs from min(anchor.X, end.X) to max(anchor.X, end.X).   *)

C6_SingleRowSameInBothModes ==
    ( RectsReturned /\ AnchorAbsRow = EndAbsRow )
    =>
        /\ Len(ret.value) = 1
        /\ ret.value =
               SelectionRects(selectionActive,
                              selectionAnchor, selectionAnchor_YOffset,
                              endSelectionPosition, endSelectionPosition_YOffset,
                              ~boxSelection, buffer).value
        /\ NoWideGlyphAt({MinX, MaxX}) =>
               /\ ret.value[1].Left = MinX
               /\ ret.value[1].Right = MaxX

C6_Witness ==
    /\ RectsReturned
    /\ ~boxSelection
    /\ AnchorAbsRow = EndAbsRow
    /\ selectionAnchor.Y # endSelectionPosition.Y
    /\ selectionAnchor.X > endSelectionPosition.X
    /\ NoWideGlyphAt({MinX, MaxX})
    /\ ret.value = << [Top |-> AnchorAbsRow, Bottom |-> AnchorAbsRow,
                       Left |-> endSelectionPosition.X,
                       Right |-> selectionAnchor.X] >>

---------------------------------------------------------------------------
(* C7: a left boundary that lands on a trailing half is moved one column   *)
(* back, onto the leading half, or one column forward when it is at the    *)
(* first column; a right boundary that lands on a leading half is moved    *)
(* one column forward, onto the trailing half, or one column back when it  *)
(* is at the last column.                                                  *)

NaturalLeftOfRow(i) ==
    IF boxSelection \/ AnchorAbsRow = EndAbsRow THEN MinX
    ELSE IF ret.value[i].Top = TopAbsRow THEN TopEndpoint.X ELSE 0

NaturalRightOfRow(i) ==
    IF boxSelection \/ AnchorAbsRow = EndAbsRow THEN MaxX
    ELSE IF ret.value[i].Top = BottomAbsRow THEN BottomEndpoint.X
    ELSE RightInclusive

---------------------------------------------------------------------------
(* C1: scroll invariance.  A successful SetSelectionAnchor or              *)
(* SetEndSelectionPosition leaves its endpoint at the absolute row         *)
(* position.Y - _scrollOffset + _ViewStartIndex() of the moment of the     *)
(* call; a later change of the scroll offset or of the view start changes  *)
(* nothing of what _GetSelectionRects returns; and the rows it returns     *)
(* run from the smaller to the larger of the two absolute rows.            *)

C1_RecordedAt ==
    /\ (ret'.op = "SetSelectionAnchor" /\ ret'.status = S_OK) =>
           /\ AnchorAbsRow' = ret'.position.Y - scrollOffset + viewStartIndex
           /\ EndAbsRow' = ret'.position.Y - scrollOffset + viewStartIndex
    /\ (ret'.op = "SetEndSelectionPosition" /\ ret'.status = S_OK) =>
           /\ EndAbsRow' = ret'.position.Y - scrollOffset + viewStartIndex
           /\ AnchorAbsRow' = AnchorAbsRow

C1_FrozenWhileScrolling ==
    (scrollOffset' # scrollOffset \/ viewStartIndex' # viewStartIndex) =>
        /\ AnchorAbsRow' = AnchorAbsRow
        /\ EndAbsRow' = EndAbsRow
        /\ GetSelectionRects' = GetSelectionRects

C1_RowsAreRecordedRows ==
    (ret'.op = "GetSelectionRects" /\ ret'.status = S_OK /\ selectionActive') =>
        /\ ret'.value[1].Top = Min(AnchorAbsRow, EndAbsRow)
        /\ ret'.value[Len(ret'.value)].Top = Max(AnchorAbsRow, EndAbsRow)

C1_ScrollInvariance ==
    [][C1_RecordedAt /\ C1_FrozenWhileScrolling /\ C1_RowsAreRecordedRows]_vars

C1_Witness ==
    /\ RectsReturned
    /\ Len(ret.value) >= 2
    /\ scrollOffset # 0
    /\ viewStartIndex # selectionAnchor_YOffset
    /\ viewStartIndex # endSelectionPosition_YOffset
    /\ selectionAnchor_YOffset # endSelectionPosition_YOffset
    /\ ret.value[1].Top = AnchorAbsRow
    /\ ret.value[Len(ret.value)].Top = EndAbsRow

---------------------------------------------------------------------------
(* C8: SetSelectionAnchor and SetEndSelectionPosition fail whenever        *)
(* position.Y - _scrollOffset is outside the SHORT range - with            *)
(* ArithmeticOverflow when the scroll offset itself fits a SHORT, with a   *)
(* narrowing error when it does not - and after a successful call the      *)
(* stored row is the exact difference.                                     *)

C8_ExactOrFailed(overflowStatus) ==
    ret'.op \in RecordOps =>
        LET difference == ret'.position.Y - scrollOffset
        IN  /\ difference \notin SHORT => ret'.status = overflowStatus
            /\ ret'.status = S_OK =>
                   /\ endSelectionPosition'.Y = difference
                   /\ ret'.op = "SetSelectionAnchor" =>
                          selectionAnchor'.Y = difference

---------------------------------------------------------------------------
(* C9: SetBoxSelection, ClearSelection and IsSelectionActive never fail;   *)
(* _GetSelectionRects and RetrieveSelectedTextFromBuffer raise             *)
(* ArithmeticOverflow exactly when the selection is active and the         *)
(* absolute row of the anchor or of the end is outside the SHORT range, a  *)
(* state that successful recording calls can produce.                      *)

C9_QueriesFailOnRowOverflowOnly ==
    /\ ret.op \in {"SetBoxSelection", "ClearSelection", "IsSelectionActive"} =>
           ret.status = S_OK
    /\ ret.op \in QueryOps =>
           /\ ret.status = INTSAFE_E_ARITHMETIC_OVERFLOW <=>
                  /\ selectionActive
                  /\ (AnchorAbsRow \notin SHORT \/ EndAbsRow \notin SHORT)

\* C9 as claimed: no operation other than the two recording ones raises an
\* error
C9_NoErrorOutsideRecording ==
    ret.op \in QueryOps \cup
               {"SetBoxSelection", "ClearSelection", "IsSelectionActive"} =>
        ret.status \notin {INTSAFE_E_ARITHMETIC_OVERFLOW, NARROWING_ERROR}

C9_Witness ==
    /\ ret.op = "GetSelectionRects"
    /\ ret.status = INTSAFE_E_ARITHMETIC_OVERFLOW
    /\ selectionActive
    /\ selectionAnchor.Y = SHORT_MAX
    /\ selectionAnchor_YOffset = 1
    /\ EndAbsRow \in SHORT

---------------------------------------------------------------------------
(* C10: while the selection is not active _GetSelectionRects returns no    *)
(* row and RetrieveSelectedTextFromBuffer the empty string, whatever the   *)
(* anchor, the end and the box mode hold.                                  *)

C10_InactiveIsEmpty ==
    (~selectionActive /\ ret.op \in QueryOps) =>
        /\ ret.status = S_OK
        /\ ret.value = << >>

C10_Witness ==
    /\ ~selectionActive
    /\ ret.op = "RetrieveSelectedTextFromBuffer"
    /\ ret.value = << >>
    /\ boxSelection
    /\ endSelectionPosition # Origin
    /\ selectionAnchor # Origin

---------------------------------------------------------------------------
(* C11: ClearSelection leaves the selection inactive, the anchor and the   *)
(* end at {0, 0} and both Y offsets at 0, and leaves _boxSelection as it   *)
(* was; no step other than SetBoxSelection ever changes _boxSelection, so  *)
(* the mode outlives every ClearSelection / SetSelectionAnchor cycle.      *)

C11_ClearStep ==
    ret'.op = "ClearSelection" =>
        /\ selectionActive' = FALSE
        /\ selectionAnchor' = Origin
        /\ endSelectionPosition' = Origin
        /\ selectionAnchor_YOffset' = 0
        /\ endSelectionPosition_YOffset' = 0
        /\ boxSelection' = boxSelection

C11_BoxModeOnlySetExplicitly ==
    boxSelection' # boxSelection => ret'.op = "SetBoxSelection"

C11_ClearZeroesKeepsBoxMode ==
    [][C11_ClearStep /\ C11_BoxModeOnlySetExplicitly]_vars

C11_Witness ==
    /\ ret.op = "ClearSelection"
    /\ boxSelection
    /\ ~selectionActive
    /\ selectionAnchor = Origin
    /\ endSelectionPosition = Origin
    /\ selectionAnchor_YOffset = 0
    /\ endSelectionPosition_YOffset = 0
    /\ viewStartIndex # 0

---------------------------------------------------------------------------
(* C12: idempotence.  A ClearSelection that follows a ClearSelection       *)
(* leaves the selection fields as the first one left them; a call of       *)
(* _GetSelectionRects changes no selection field, and the same call made   *)
(* again right after it has the same outcome and the same rows.            *)

C12_ClearTwice ==
    (ret.op = "ClearSelection" /\ ret'.op = "ClearSelection") =>
        tracker' = tracker

C12_RectsTwice ==
    ret'.op = "GetSelectionRects" =>
        /\ tracker' = tracker
        /\ buffer' = buffer
        /\ GetSelectionRects' = [status |-> ret'.status, value |-> ret'.value]

C12_Idempotent == [][C12_ClearTwice /\ C12_RectsTwice]_vars

C12_Witness ==
    /\ ret.op = "GetSelectionRects"
    /\ ret.status = S_OK
    /\ selectionActive
    /\ Len(ret.value) >= 2
    /\ GetSelectionRects.value = ret.value

---------------------------------------------------------------------------
(* C13: right after a successful SetSelectionAnchor(position), whatever    *)
(* the state before, the selection is active and the end equals the anchor *)
(* in coordinate and Y offset, and the rows _GetSelectionRects returns     *)
(* are one row, on the absolute row of the anchor, with                    *)
(* Left = Right = position.X.                                              *)

C13_PointSelection ==
    (ret'.op = "SetSelectionAnchor" /\ ret'.status = S_OK) =>
        /\ selectionActive'
        /\ endSelectionPosition' = selectionAnchor'
        /\ endSelectionPosition_YOffset' = selectionAnchor_YOffset'
        /\ GetSelectionRects'.status = S_OK =>
               GetSelectionRects'.value =
                   << [Top    |-> AnchorAbsRow',
                       Bottom |-> AnchorAbsRow',
                       Left   |-> ret'.position.X,
                       Right  |-> ret'.position.X] >>

C13_BeginStartsSinglePoint == [][C13_PointSelection]_vars

C13_Witness ==
    /\ ret.op = "SetSelectionAnchor"
    /\ ret.status = S_OK
    /\ ret.position.X = RightInclusive
    /\ selectionActive
    /\ endSelectionPosition = selectionAnchor
    /\ selectionAnchor_YOffset # 0
    /\ scrollOffset # 0
    /\ Len(GetSelectionRects.value) = 1
    /\ GetSelectionRects.value[1].Left = RightInclusive

---------------------------------------------------------------------------
(* C14: frame conditions.  The anchor and its Y offset change only in      *)
(* SetSelectionAnchor and ClearSelection; the end and its Y offset only in *)
(* SetSelectionAnchor, SetEndSelectionPosition and ClearSelection;         *)
(* SetEndSelectionPosition leaves the anchor, the active flag and the box  *)
(* mode alone; SetBoxSelection changes only the box mode; the three const  *)
(* methods change no selection field.                                      *)

C14_AnchorWriters ==
    (selectionAnchor' # selectionAnchor
         \/ selectionAnchor_YOffset' # selectionAnchor_YOffset) =>
        ret'.op \in {"SetSelectionAnchor", "ClearSelection"}

C14_EndWriters ==
    (endSelectionPosition' # endSelectionPosition
         \/ endSelectionPosition_YOffset' # endSelectionPosition_YOffset) =>
        ret'.op \in {"SetSelectionAnchor", "SetEndSelectionPosition",
                     "ClearSelection"}

C14_Frames ==
    /\ ret'.op = "SetEndSelectionPosition" =>
           /\ selectionAnchor' = selectionAnchor
           /\ selectionAnchor_YOffset' = selectionAnchor_YOffset
           /\ selectionActive' = selectionActive
           /\ boxSelection' = boxSelection
    /\ ret'.op = "SetBoxSelection" =>
           /\ boxSelection' = ret'.flag
           /\ UNCHANGED << selectionActive, selectionAnchor,
                           selectionAnchor_YOffset, endSelectionPosition,
                           endSelectionPosition_YOffset >>
    /\ ret'.op \in QueryOps \cup {"IsSelectionActive"} => tracker' = tracker

C14_FrameConditions ==
    [][C14_AnchorWriters /\ C14_EndWriters /\ C14_Frames]_vars

C14_Witness ==
    /\ ret.op = "SetEndSelectionPosition"
    /\ ret.status = S_OK
    /\ selectionActive
    /\ boxSelection
    /\ endSelectionPosition # selectionAnchor
    /\ endSelectionPosition_YOffset # selectionAnchor_YOffset

---------------------------------------------------------------------------
(* C15: SetBoxSelection acts on the selection in progress.  For an active  *)
(* selection over several rows, the rows returned by the                   *)
(* _GetSelectionRects that directly follows SetBoxSelection(true) all run  *)
(* from the smaller to the larger X of the endpoints, and the rows         *)
(* returned by the one that directly follows SetBoxSelection(false) have   *)
(* the stream shape, with no SetSelectionAnchor or                         *)
(* SetEndSelectionPosition in between.                                     *)

C15_ShapeOfRow(isBox, rect) ==
    IF isBox
        THEN rect.Left = MinX /\ rect.Right = MaxX
        ELSE /\ rect.Left = (IF rect.Top = TopAbsRow THEN TopEndpoint.X ELSE 0)
             /\ rect.Right = (IF rect.Top = BottomAbsRow
                                  THEN BottomEndpoint.X
                                  ELSE RightInclusive)

C15_FirstQueryAfterSetBox ==
    (/\ ret.op = "SetBoxSelection"
     /\ ret'.op = "GetSelectionRects"
     /\ ret'.status = S_OK
     /\ selectionActive
     /\ AnchorAbsRow # EndAbsRow) =>
        /\ Len(ret'.value) >= 2
        /\ \A i \in 1..Len(ret'.value) : C15_ShapeOfRow(ret.flag, ret'.value[i])

C15_SetBoxModeImmediate == [][C15_FirstQueryAfterSetBox]_vars

\* SetBoxSelection(true) has just been called on an active selection whose
\* stream rows differ from its box rows; the rows a query returns now are
\* the box
C15_Witness ==
    /\ ret.op = "SetBoxSelection"
    /\ ret.flag
    /\ selectionActive
    /\ TopEndpoint.X = RightInclusive
    /\ BottomEndpoint.X = RightInclusive
    /\ GetSelectionRects.status = S_OK
    /\ Len(GetSelectionRects.value) >= 2
    /\ GetSelectionRects.value[2].Left = RightInclusive

---------------------------------------------------------------------------
(* C16: RetrieveSelectedTextFromBuffer asks the buffer for exactly the     *)
(* rows _GetSelectionRects returns, as a line selection iff _boxSelection  *)
(* is off (for one row as for several), with the caller's trim flag, and   *)
(* returns the fragments it gets in their order with nothing in between.   *)

C16_TextOfRows ==
    ret.op = "RetrieveSelectedTextFromBuffer" =>
        /\ ret.status = GetSelectionRects.status
        /\ ret.status = S_OK =>
               /\ Len(ret.value) = Len(GetSelectionRects.value)
               /\ \A i \in 1..Len(ret.value) :
                      ret.value[i] = [rect |-> GetSelectionRects.value[i],
                                      lineSelection |-> ~boxSelection,
                                      trim |-> ret.flag]

C16_Witness ==
    /\ ret.op = "RetrieveSelectedTextFromBuffer"
    /\ ret.status = S_OK
    /\ boxSelection
    /\ ret.flag
    /\ Len(ret.value) = 1
    /\ ret.value[1].lineSelection = FALSE
    /\ ret.value[1].rect.Left # ret.value[1].rect.Right

---------------------------------------------------------------------------
(* C17: a SetSelectionAnchor or SetEndSelectionPosition at a position      *)
(* inside the viewport, made while the absolute row of the anchor lies     *)
(* inside the viewport as it stands at that call, leaves a selection of    *)
(* at most ViewHeight rows.                                                *)

\* absolute row shown at the top of the viewport
ViewportTop == viewStartIndex - scrollOffset

C17_RecordedWithAnchorInView ==
    (/\ ret'.op \in RecordOps
     /\ ret'.status = S_OK
     /\ selectionActive'
     /\ AnchorAbsRow' \in ViewportTop..(ViewportTop + ViewHeight - 1)
     /\ GetSelectionRects'.status = S_OK) =>
        Len(GetSelectionRects'.value) <= ViewHeight

C17_BoundedWhileAnchorInView == [][C17_RecordedWithAnchorInView]_vars

\* C17 as claimed: never more rows than the viewport has, wherever the
\* viewport was when each endpoint was recorded
C17_RowsBoundedByViewHeight ==
    RectsReturned => Len(ret.value) <= ViewHeight

C17_Witness ==
    /\ ret.op = "SetEndSelectionPosition"
    /\ ret.status = S_OK
    /\ selectionActive
    /\ scrollOffset # 0
    /\ viewStartIndex # 0
    /\ AnchorAbsRow \in ViewportTop..(ViewportTop + ViewHeight - 1)
    /\ AnchorAbsRow # EndAbsRow
    /\ GetSelectionRects.status = S_OK
    /\ Len(GetSelectionRects.value) = ViewHeight

---------------------------------------------------------------------------
(* C18: SetEndSelectionPosition may be called while the selection is not   *)
(* active.  It then succeeds exactly when the same call would succeed on   *)
(* an active selection (the scroll offset, the view start and              *)
(* position.Y - _scrollOffset fit a SHORT), records the end at that        *)
(* position and leaves the selection inactive, so that _GetSelectionRects  *)
(* and RetrieveSelectedTextFromBuffer still return nothing.                *)

C18_EndRecordedWhileInactive ==
    (~selectionActive /\ ret'.op = "SetEndSelectionPosition") =>
        /\ ~selectionActive'
        /\ ret'.status = S_OK <=>
               /\ scrollOffset \in SHORT
               /\ viewStartIndex \in SHORT
               /\ ret'.position.Y - scrollOffset \in SHORT
        /\ ret'.status = S_OK =>
               /\ endSelectionPosition'.X = ret'.position.X
               /\ endSelectionPosition'.Y = ret'.position.Y - scrollOffset
               /\ endSelectionPosition_YOffset' = viewStartIndex
        /\ GetSelectionRects' = [status |-> S_OK, value |-> << >>]
        /\ \A trim \in BOOLEAN :
               RetrieveSelectedTextFromBuffer(trim)' =
                   [status |-> S_OK, value |-> << >>]

C18_ExtendLegalWhileInactive == [][C18_EndRecordedWhileInactive]_vars

C18_Witness ==
    /\ ~selectionActive
    /\ ret.op = "SetEndSelectionPosition"
    /\ ret.status = S_OK
    /\ endSelectionPosition = [X |-> RightInclusive, Y |-> SHORT_MAX - 1]
    /\ endSelectionPosition_YOffset = 1
    /\ selectionAnchor = Origin
    /\ GetSelectionRects.value = << >>

---------------------------------------------------------------------------
(* C19: a SetSelectionAnchor or SetEndSelectionPosition that fails with    *)
(* ArithmeticOverflow leaves every selection field as it was before the    *)
(* call.                                                                   *)

C19_FailedCallChangesNothing ==
    (ret'.op \in RecordOps /\ ret'.status = INTSAFE_E_ARITHMETIC_OVERFLOW) =>
        tracker' = tracker

C19_FailureLeavesStateUnchanged == [][C19_FailedCallChangesNothing]_vars

---------------------------------------------------------------------------
(* C20: every call of _GetSelectionRects (and so of                        *)
(* RetrieveSelectedTextFromBuffer) returns or throws; the row loop is      *)
(* left also when the lower endpoint is on absolute row SHORT_MAX.         *)

C20_QueryTerminates ==
    ret.op \in QueryOps => ret.status # "NoReturn"

===========================================================================
